---- MODULE Spec2Model ----
(***************************************************************************)
(* Bracha reliable broadcast simulation: the relay fabric (Network), the   *)
(* participant threads (Node) and the protocol handlers                    *)
(* (protocols/bracha_broadcast.rs).  Every channel send is one step, so    *)
(* the sends of distinct threads interleave as they do on the mpsc         *)
(* channels of the program.                                                *)
(***************************************************************************)
EXTENDS Integers, Sequences, FiniteSets, TLC

\* network.rs:9
NETWORK_ID == 10000

\* The value RandomCorrupt pushes (MALICIOUS_VALUE; its definition is not in src/).
MALICIOUS_VALUE == 666

\* Scheduling bound.  The threads are taken in a fixed cyclic order (participants
\* by id, then the fabric) and the thread that ran last keeps running while it
\* can; running another thread instead costs one delay for every thread that
\* could have run and was passed over.  A run with a Byzantine participant has
\* at most MaxDelays delays; a run of honest participants only, where every
\* step but the order of the threads is determined, has one more.
MaxDelays == 1

NodeIds == 0 .. 3

\* Values the caller may broadcast (scenarios S1 and S4 of the specification).
Values == {5, 7}

\* The runs modelled: <<num_nodes, num_malicious, leader_node, v>>.
Configs == { <<4, 0, 0, 7>>, <<4, 0, 3, 7>>, <<4, 1, 0, 5>>, <<4, 1, 2, 7>>, <<4, 1, 3, 5>>,
             <<3, 1, 0, 5>>, <<3, 0, 1, 7>>, <<2, 0, 1, 5>>, <<1, 0, 0, 7>> }
AllValues == Values \cup {MALICIOUS_VALUE}

VARIABLES
    num_nodes,          \* Network::new argument
    num_malicious,      \* Network::new argument
    leader_node,        \* bracha_broadcast argument
    value,              \* bracha_broadcast argument v
    net_pc,             \* position of the caller / fabric thread
    nodes,              \* Network.nodes: ids of the participants still in the map
    good_running_nodes, \* run_network local
    results,            \* run_network local: NodeId -> Value
    success,            \* boolean returned by bracha_broadcast
    rx,                 \* aggregated inbox (Network.rx), FIFO
    chan,               \* per participant inbox, FIFO
    node_pc,            \* position of each participant thread
    outbox,             \* sends a participant's current handler has still to perform
    echo, ready,        \* BroadcastState latches (TRUE = not sent yet)
    echo_received,      \* BroadcastState.echo_received
    ready_received,     \* BroadcastState.ready_received
    delivered,          \* ProtocolState::Terminated(v) of a participant: {} or {v}
    turn,               \* scheduler: the thread that ran last
    delays              \* scheduler: delays spent so far

netvars  == <<net_pc, nodes, good_running_nodes, results, success>>
confvars == <<num_nodes, num_malicious, leader_node, value>>
bcvars   == <<echo, ready, echo_received, ready_received, delivered>>
schedvars == <<turn, delays>>
vars == <<num_nodes, num_malicious, leader_node, value, net_pc, nodes,
          good_running_nodes, results, success, rx, chan, node_pc, outbox,
          echo, ready, echo_received, ready_received, delivered, turn, delays>>

NetworkMessage(from, to, kind, v) == [from |-> from, to |-> to, kind |-> kind, val |-> v]

----------------------------------------------------------------------------
(* Scheduling *)

\* node.rs:195: a thread that is not sending takes the next envelope of its inbox
CanRecv(i) ==
    /\ node_pc[i] = "run"
    /\ outbox[i] = <<>>
    /\ chan[i] # <<>>

\* The threads in scheduling order: participant i is thread i, the fabric is last
FABRIC == Cardinality(NodeIds)
Threads == 0 .. FABRIC

NodeEnabled(i) == outbox[i] # <<>> \/ CanRecv(i)

FabricEnabled ==
    \/ net_pc \in {"start", "created"}
    \/ /\ net_pc = "relay"
       /\ rx # <<>>
       /\ (Head(rx).kind = "END" /\ Head(rx).from \in nodes) => node_pc[Head(rx).from] = "done"
    \/ /\ net_pc = "joining"
       /\ \A i \in nodes : node_pc[i] = "done"

ThreadEnabled(p) == IF p = FABRIC THEN FabricEnabled ELSE NodeEnabled(p)

\* Threads that could run and are passed over when p runs next
PassedOver(p) ==
    {q \in Threads : /\ ThreadEnabled(q)
                     /\ q # p
                     /\ (q - turn) % (FABRIC + 1) < (p - turn) % (FABRIC + 1)}

DelayBudget == IF num_malicious = 0 THEN MaxDelays + 1 ELSE MaxDelays

Sched(p) ==
    /\ delays + Cardinality(PassedOver(p)) <= DelayBudget
    /\ delays' = delays + Cardinality(PassedOver(p))
    /\ turn' = p

----------------------------------------------------------------------------
(* Network::new *)

\* network.rs:71  assert!((num_malicious as f32) < (num_nodes as f32) / 3.0)
ConfigOk(n, b) == 3 * b < n

\* network.rs:73
num_good == num_nodes - num_malicious

\* network.rs:83-89: ids below num_good are Good, the others Malicious
good_nodes == {id \in 0 .. (num_nodes - 1) : id < num_good}
malicious_nodes == {id \in 0 .. (num_nodes - 1) : id >= num_good}

\* Mutant: the participant's own id is not removed from its neighbours
neighbour_nodes_Self(id) == [k \in 1 .. (num_nodes - 1) |-> k - 1]

\* network.rs:81-82: (0..num_nodes) with id removed, ascending
neighbour_nodes(id) ==
    [k \in 1 .. (num_nodes - 1) |-> IF k - 1 < id THEN k - 1 ELSE k]

\* node.rs:176-179
max_malicious_nodes == num_nodes \div 3
min_honnest_nodes == num_nodes - max_malicious_nodes

EmptyTally == [v \in AllValues |-> {}]

Init ==
    /\ \E c \in Configs :
         /\ num_nodes = c[1]
         /\ num_malicious = c[2]
         /\ leader_node = c[3]
         /\ value = c[4]
    /\ net_pc = "start"
    /\ nodes = {}
    /\ good_running_nodes = 0
    /\ results = <<>>
    /\ success = FALSE
    /\ rx = <<>>
    /\ chan = [i \in NodeIds |-> <<>>]
    /\ node_pc = [i \in NodeIds |-> "none"]
    /\ outbox = [i \in NodeIds |-> <<>>]
    /\ echo = [i \in NodeIds |-> TRUE]
    /\ ready = [i \in NodeIds |-> TRUE]
    /\ echo_received = [i \in NodeIds |-> EmptyTally]
    /\ ready_received = [i \in NodeIds |-> EmptyTally]
    /\ delivered = [i \in NodeIds |-> {}]
    /\ turn = FABRIC
    /\ delays = 0

\* Mutant: the channels and threads are created before the assertion is checked
New_SpawnFirst ==
    /\ net_pc = "start"
    /\ net_pc' = IF ConfigOk(num_nodes, num_malicious) THEN "created" ELSE "config_error"
    /\ nodes' = 0 .. (num_nodes - 1)
    /\ node_pc' = [i \in NodeIds |-> IF i < num_nodes THEN "run" ELSE "none"]
    /\ UNCHANGED <<confvars, good_running_nodes, results, success, rx, chan, outbox, bcvars>>
    /\ Sched(FABRIC)

\* network.rs:69-105: the assertion, then one channel and one thread per id
New ==
    /\ net_pc = "start"
    /\ IF ConfigOk(num_nodes, num_malicious)
       THEN /\ net_pc' = "created"
            /\ nodes' = 0 .. (num_nodes - 1)
            /\ node_pc' = [i \in NodeIds |-> IF i < num_nodes THEN "run" ELSE "none"]
       ELSE /\ net_pc' = "config_error"
            /\ UNCHANGED <<nodes, node_pc>>
    /\ UNCHANGED <<confvars, good_running_nodes, results, success, rx, chan, outbox, bcvars>>
    /\ Sched(FABRIC)

----------------------------------------------------------------------------
(* Participant threads *)

\* node.rs:153-158 (send_to_all): one envelope per neighbour, in neighbour order
send_to_all(id, kind, v) ==
    [k \in 1 .. (num_nodes - 1) |-> NetworkMessage(id, neighbour_nodes(id)[k], kind, v)]

\* Mutant: a single ECHO is taken for a quorum
EchoQuorum_One(len) == len >= 1
\* Mutant: the quorum is honest_min, as if a participant received its own ECHO
EchoQuorum_Honest(len) == len >= min_honnest_nodes
\* bracha_broadcast.rs:86
EchoQuorum(len) == len >= min_honnest_nodes - 1
\* Mutant: READY is amplified on the first READY seen
ReadyAmplify_First(len) == len > 0
\* Mutant: f_max READY senders are enough to amplify
ReadyAmplify_AtLeast(len) == len >= max_malicious_nodes
\* bracha_broadcast.rs:115
ReadyAmplify(len) == len > max_malicious_nodes
\* Mutant: the quorum counts the participant itself among the senders
ReadyQuorum_All(len) == len >= num_nodes
\* Mutant: a single READY is taken for a quorum
ReadyQuorum_One(len) == len >= 1
\* bracha_broadcast.rs:122-123
ReadyQuorum(len) == len >= min_honnest_nodes - 1

\* bracha_broadcast.rs:57-61
HandleLeader(i) ==
    /\ CanRecv(i) /\ i \in good_nodes
    /\ Head(chan[i]).kind = "BC_LEADER"
    /\ LET v == Head(chan[i]).val IN
         outbox' = [outbox EXCEPT ![i] =
                      send_to_all(i, "BC_INIT", v) \o send_to_all(i, "BC_ECHO", v)]
    /\ echo' = [echo EXCEPT ![i] = FALSE]
    /\ chan' = [chan EXCEPT ![i] = Tail(@)]
    /\ Sched(i)
    /\ UNCHANGED <<confvars, netvars, rx, node_pc, ready, echo_received, ready_received, delivered>>

\* bracha_broadcast.rs:64-70
HandleInit(i) ==
    /\ CanRecv(i) /\ i \in good_nodes
    /\ Head(chan[i]).kind = "BC_INIT"
    /\ LET v == Head(chan[i]).val IN
         IF echo[i]
         THEN /\ outbox' = [outbox EXCEPT ![i] = send_to_all(i, "BC_ECHO", v)]
              /\ echo' = [echo EXCEPT ![i] = FALSE]
         ELSE UNCHANGED <<outbox, echo>>
    /\ chan' = [chan EXCEPT ![i] = Tail(@)]
    /\ Sched(i)
    /\ UNCHANGED <<confvars, netvars, rx, node_pc, ready, echo_received, ready_received, delivered>>

\* Mutant: the echo quorum sends READY without looking at the ready latch
HandleEcho_NoLatch(i) ==
    /\ CanRecv(i) /\ i \in good_nodes
    /\ Head(chan[i]).kind = "BC_ECHO"
    /\ LET v == Head(chan[i]).val
           from == Head(chan[i]).from
           echo_v_received == echo_received[i][v] \cup {from}
       IN  /\ echo_received' = [echo_received EXCEPT ![i][v] = echo_v_received]
           /\ IF EchoQuorum(Cardinality(echo_v_received))
              THEN /\ outbox' = [outbox EXCEPT ![i] = send_to_all(i, "BC_READY", v)]
                   /\ ready_received' = [ready_received EXCEPT ![i][v] = {}]
                   /\ ready' = [ready EXCEPT ![i] = FALSE]
              ELSE UNCHANGED <<outbox, ready_received, ready>>
    /\ chan' = [chan EXCEPT ![i] = Tail(@)]
    /\ Sched(i)
    /\ UNCHANGED <<confvars, netvars, rx, node_pc, echo, delivered>>

\* bracha_broadcast.rs:73-98
HandleEcho(i) ==
    /\ CanRecv(i) /\ i \in good_nodes
    /\ Head(chan[i]).kind = "BC_ECHO"
    /\ LET v == Head(chan[i]).val
           from == Head(chan[i]).from
           echo_v_received == echo_received[i][v] \cup {from}
       IN  /\ echo_received' = [echo_received EXCEPT ![i][v] = echo_v_received]
           /\ IF ready[i] /\ EchoQuorum(Cardinality(echo_v_received))
              THEN /\ outbox' = [outbox EXCEPT ![i] = send_to_all(i, "BC_READY", v)]
                   /\ ready_received' = [ready_received EXCEPT ![i][v] = {}]
                   /\ ready' = [ready EXCEPT ![i] = FALSE]
              ELSE UNCHANGED <<outbox, ready_received, ready>>
    /\ chan' = [chan EXCEPT ![i] = Tail(@)]
    /\ Sched(i)
    /\ UNCHANGED <<confvars, netvars, rx, node_pc, echo, delivered>>

\* Mutant: a delivering participant reports END(v) in the handler and again in
\* the thread loop
HandleReady_TwoEnds(i) ==
    /\ CanRecv(i) /\ i \in good_nodes
    /\ Head(chan[i]).kind = "BC_READY"
    /\ LET v == Head(chan[i]).val
           from == Head(chan[i]).from
           ready_v_received == ready_received[i][v] \cup {from}
       IN  /\ ready_received' = [ready_received EXCEPT ![i][v] = ready_v_received]
           /\ IF ready[i]
              THEN /\ IF ReadyAmplify(Cardinality(ready_v_received))
                      THEN /\ outbox' = [outbox EXCEPT ![i] = send_to_all(i, "BC_READY", v)]
                           /\ ready' = [ready EXCEPT ![i] = FALSE]
                      ELSE UNCHANGED <<outbox, ready>>
                   /\ UNCHANGED <<node_pc, delivered>>
              ELSE IF ReadyQuorum(Cardinality(ready_v_received))
                   THEN /\ delivered' = [delivered EXCEPT ![i] = {v}]
                        /\ outbox' = [outbox EXCEPT ![i] =
                                        << NetworkMessage(i, NETWORK_ID, "END", v),
                                           NetworkMessage(i, NETWORK_ID, "END", v) >>]
                        /\ node_pc' = [node_pc EXCEPT ![i] = "exiting"]
                        /\ UNCHANGED ready
                   ELSE UNCHANGED <<outbox, ready, node_pc, delivered>>
    /\ chan' = [chan EXCEPT ![i] = Tail(@)]
    /\ Sched(i)
    /\ UNCHANGED <<confvars, netvars, rx, echo, echo_received>>

\* bracha_broadcast.rs:102-127; on Terminated(v) the thread reports END(v) to the
\* fabric and leaves its loop (node.rs:196-199)
HandleReady(i) ==
    /\ CanRecv(i) /\ i \in good_nodes
    /\ Head(chan[i]).kind = "BC_READY"
    /\ LET v == Head(chan[i]).val
           from == Head(chan[i]).from
           ready_v_received == ready_received[i][v] \cup {from}
       IN  /\ ready_received' = [ready_received EXCEPT ![i][v] = ready_v_received]
           /\ IF ready[i]
              THEN /\ IF ReadyAmplify(Cardinality(ready_v_received))
                      THEN /\ outbox' = [outbox EXCEPT ![i] = send_to_all(i, "BC_READY", v)]
                           /\ ready' = [ready EXCEPT ![i] = FALSE]
                      ELSE UNCHANGED <<outbox, ready>>
                   /\ UNCHANGED <<node_pc, delivered>>
              ELSE IF ReadyQuorum(Cardinality(ready_v_received))
                   THEN /\ delivered' = [delivered EXCEPT ![i] = {v}]
                        /\ outbox' = [outbox EXCEPT ![i] =
                                        <<NetworkMessage(i, NETWORK_ID, "END", v)>>]
                        /\ node_pc' = [node_pc EXCEPT ![i] = "exiting"]
                        /\ UNCHANGED ready
                   ELSE UNCHANGED <<outbox, ready, node_pc, delivered>>
    /\ chan' = [chan EXCEPT ![i] = Tail(@)]
    /\ Sched(i)
    /\ UNCHANGED <<confvars, netvars, rx, echo, echo_received>>

\* Mutant: the Byzantine participant reports a delivery of M and exits
random_broadcast_End(i) ==
    /\ CanRecv(i) /\ i \in malicious_nodes
    /\ Head(chan[i]).kind # "END"
    /\ outbox' = [outbox EXCEPT ![i] =
                    <<NetworkMessage(i, NETWORK_ID, "END", MALICIOUS_VALUE)>>]
    /\ node_pc' = [node_pc EXCEPT ![i] = "exiting"]
    /\ chan' = [chan EXCEPT ![i] = Tail(@)]
    /\ Sched(i)
    /\ UNCHANGED <<confvars, netvars, rx, bcvars>>

\* Mutant: the Byzantine participant also draws INIT(M)
random_broadcast_Init(i) ==
    /\ CanRecv(i) /\ i \in malicious_nodes
    /\ Head(chan[i]).kind # "END"
    /\ \E kind \in {"BC_INIT", "BC_ECHO", "BC_READY"} :
         outbox' = [outbox EXCEPT ![i] = send_to_all(i, kind, MALICIOUS_VALUE)]
    /\ chan' = [chan EXCEPT ![i] = Tail(@)]
    /\ Sched(i)
    /\ UNCHANGED <<confvars, netvars, rx, node_pc, bcvars>>

\* bracha_broadcast.rs:136-144 and 160-167: ECHO(M) or READY(M) to every neighbour
random_broadcast(i) ==
    /\ CanRecv(i) /\ i \in malicious_nodes
    /\ Head(chan[i]).kind # "END"
    /\ \E kind \in {"BC_ECHO", "BC_READY"} :
         outbox' = [outbox EXCEPT ![i] = send_to_all(i, kind, MALICIOUS_VALUE)]
    /\ chan' = [chan EXCEPT ![i] = Tail(@)]
    /\ Sched(i)
    /\ UNCHANGED <<confvars, netvars, rx, node_pc, bcvars>>

\* node.rs:55-58 then node.rs:196-199: the END of the fabric is confirmed by
\* handle_msg, which returns false, and the thread loop then sends END again
NodeEnd(i) ==
    /\ CanRecv(i)
    /\ Head(chan[i]).kind = "END"
    /\ LET v == Head(chan[i]).val IN
         outbox' = [outbox EXCEPT ![i] =
                      << NetworkMessage(i, NETWORK_ID, "END", v),
                         NetworkMessage(i, NETWORK_ID, "END", v) >>]
    /\ node_pc' = [node_pc EXCEPT ![i] = "exiting"]
    /\ chan' = [chan EXCEPT ![i] = Tail(@)]
    /\ Sched(i)
    /\ UNCHANGED <<confvars, netvars, rx, bcvars>>

\* One tx.send of the running handler (or of the thread loop); the thread
\* exits after the last send of a handler that ended its loop
NodeSend(i) ==
    /\ outbox[i] # <<>>
    /\ Sched(i)
    /\ rx' = Append(rx, Head(outbox[i]))
    /\ outbox' = [outbox EXCEPT ![i] = Tail(@)]
    /\ node_pc' = [node_pc EXCEPT ![i] =
                     IF @ = "exiting" /\ Len(outbox[i]) = 1 THEN "done" ELSE @]
    /\ UNCHANGED <<confvars, netvars, chan, bcvars>>

----------------------------------------------------------------------------
(* Fabric *)

\* network.rs:113-118, and the locals of run_network (network.rs:136-137)
StartBroadcast ==
    /\ net_pc = "created"
    /\ chan' = IF leader_node \in nodes
               THEN [chan EXCEPT ![leader_node] =
                       Append(@, NetworkMessage(NETWORK_ID, leader_node, "BC_LEADER", value))]
               ELSE chan
    /\ good_running_nodes' = Cardinality(good_nodes)
    /\ results' = <<>>
    /\ net_pc' = "relay"
    /\ UNCHANGED <<confvars, nodes, success, rx, node_pc, outbox, bcvars>>
    /\ Sched(FABRIC)

Insert(map, k, v) == [x \in (DOMAIN map) \cup {k} |-> IF x = k THEN v ELSE map[x]]

\* Mutant: END goes to every id of the network, not to the entries left in the map
SendEndAll_Every(ch, live) ==
    [i \in NodeIds |-> IF i < num_nodes
                       THEN Append(ch[i], NetworkMessage(NETWORK_ID, i, "END", 0))
                       ELSE ch[i]]

\* network.rs:176-178
SendEndAll(ch, live) ==
    [i \in NodeIds |-> IF i \in live
                       THEN Append(ch[i], NetworkMessage(NETWORK_ID, i, "END", 0))
                       ELSE ch[i]]

\* network.rs:142-187: END(v) from a participant; join waits for its thread
NetEnd ==
    /\ net_pc = "relay"
    /\ rx # <<>>
    /\ Head(rx).kind = "END"
    /\ LET node_id == Head(rx).from
           v == Head(rx).val
       IN  /\ results' = Insert(results, node_id, v)
           /\ IF node_id \notin nodes
              THEN \* expect("Can't terminate a node twice")
                   /\ net_pc' = "panicked"
                   /\ UNCHANGED <<nodes, good_running_nodes, chan>>
              ELSE /\ node_pc[node_id] = "done"
                   /\ IF node_id \in good_nodes
                      THEN /\ good_running_nodes' = good_running_nodes - 1
                           /\ IF good_running_nodes - 1 = 0
                              THEN /\ chan' = SendEndAll(chan, nodes \ {node_id})
                                   /\ net_pc' = "joining"
                              ELSE UNCHANGED <<chan, net_pc>>
                      ELSE UNCHANGED <<good_running_nodes, chan, net_pc>>
                   /\ nodes' = nodes \ {node_id}
    /\ rx' = Tail(rx)
    /\ UNCHANGED <<confvars, success, node_pc, outbox, bcvars>>
    /\ Sched(FABRIC)

\* Mutant: the lookup in the map is skipped
Relay_NoLookup(ch, live, m) ==
    IF m.to # NETWORK_ID
    THEN [ch EXCEPT ![m.to] = Append(@, m)]
    ELSE ch

\* Mutant: the envelope is put at the front of the destination's inbox
Relay_Front(ch, live, m) ==
    IF m.to # NETWORK_ID /\ m.to \in live
    THEN [ch EXCEPT ![m.to] = <<m>> \o @]
    ELSE ch

\* network.rs:190-200: relay to the destination when it is still in the map
Relay(ch, live, m) ==
    IF m.to # NETWORK_ID /\ m.to \in live
    THEN [ch EXCEPT ![m.to] = Append(@, m)]
    ELSE ch

NetRelay ==
    /\ net_pc = "relay"
    /\ rx # <<>>
    /\ Head(rx).kind # "END"
    /\ chan' = Relay(chan, nodes, Head(rx))
    /\ rx' = Tail(rx)
    /\ UNCHANGED <<confvars, netvars, node_pc, outbox, bcvars>>
    /\ Sched(FABRIC)

Range(f) == {f[x] : x \in DOMAIN f}

\* Mutant: termination compares with the number of nodes, not of good nodes
Outcome_AllNodes(res, v) ==
    LET termination == Cardinality(DOMAIN res) = num_nodes
        first == CHOOSE x \in Range(res) : TRUE
        agreement == \A x \in Range(res) : x = first
        validity == agreement /\ first = v
    IN  termination /\ agreement /\ validity

\* network.rs:121-132
Outcome(res, v) ==
    LET termination == Cardinality(DOMAIN res) = Cardinality(good_nodes)
        first == CHOOSE x \in Range(res) : TRUE
        agreement == \A x \in Range(res) : x = first
        validity == agreement /\ first = v
    IN  termination /\ agreement /\ validity

\* network.rs:181-184 (join the remaining nodes, leave the loop) and 119-132
NetJoinReturn ==
    /\ net_pc = "joining"
    /\ \A i \in nodes : node_pc[i] = "done"
    /\ nodes' = {}
    /\ success' = Outcome(results, value)
    /\ net_pc' = "returned"
    /\ UNCHANGED <<confvars, good_running_nodes, results, rx, chan, node_pc, outbox, bcvars>>
    /\ Sched(FABRIC)

----------------------------------------------------------------------------

Next ==
    \/ New
    \/ StartBroadcast
    \/ NetEnd
    \/ NetRelay
    \/ NetJoinReturn
    \/ \E i \in NodeIds :
         \/ HandleLeader(i)
         \/ HandleInit(i)
         \/ HandleEcho(i)
         \/ HandleReady(i)
         \/ random_broadcast(i)
         \/ NodeEnd(i)
         \/ NodeSend(i)

Fabric == New \/ StartBroadcast \/ NetEnd \/ NetRelay \/ NetJoinReturn
Node(i) ==
    \/ HandleLeader(i) \/ HandleInit(i) \/ HandleEcho(i) \/ HandleReady(i)
    \/ random_broadcast(i) \/ NodeEnd(i) \/ NodeSend(i)

Spec == Init /\ [][Next]_vars

\* Every thread is an operating system thread: one that can run does run
FairSpec == Spec /\ WF_vars(Fabric) /\ \A i \in NodeIds : WF_vars(Node(i))

----------------------------------------------------------------------------
(* Properties *)

Honest(i) == i \in good_nodes
HasDelivered(i) == delivered[i] # {}

\* C1 (agreement): two honest participants that deliver, deliver the same value;
\* so do the END values of honest participants the fabric has recorded.
C1_Agreement ==
    /\ \A i, j \in good_nodes :
         (HasDelivered(i) /\ HasDelivered(j)) => delivered[i] = delivered[j]
    /\ \A i, j \in good_nodes \cap DOMAIN results : results[i] = results[j]

C1_Witness ==
    /\ num_malicious = 1
    /\ \E i, j \in good_nodes :
         /\ i # j /\ HasDelivered(i) /\ HasDelivered(j)
         /\ ready_received[i][MALICIOUS_VALUE] # {}
         /\ {i, j} \subseteq DOMAIN results

\* C2 (validity): with an honest leader given LEADER(v), an honest participant
\* delivers nothing but v, and never the malicious value.
C2_Validity ==
    leader_node \in good_nodes =>
        /\ \A i \in good_nodes : delivered[i] \subseteq {value}
        /\ \A i \in good_nodes : MALICIOUS_VALUE \notin delivered[i]
        /\ \A i \in good_nodes \cap DOMAIN results : results[i] = value

C2_Witness ==
    /\ num_malicious = 1
    /\ leader_node \in good_nodes
    /\ \E i \in good_nodes :
         /\ delivered[i] = {value}
         /\ echo_received[i][MALICIOUS_VALUE] # {}
         /\ ready_received[i][MALICIOUS_VALUE] # {}

AllHonestDelivered == \A i \in good_nodes : HasDelivered(i)
Returned == net_pc = "returned"

\* C3 (termination under an honest leader): in every configuration with
\* 3*b < N and an honest leader, under fair scheduling every honest participant
\* eventually delivers and broadcast eventually returns.
C3_Termination ==
    (ConfigOk(num_nodes, num_malicious) /\ leader_node \in good_nodes)
        => <>(Returned /\ AllHonestDelivered)

S4 == num_nodes = 4 /\ num_malicious = 1 /\ leader_node = 0 /\ value = 5

\* C4 (scenario S4): with N=4, b=1, leader 0 and v=5 every fair run ends with
\* broadcast returning success and the delivered map {0:5, 1:5, 2:5}.
C4_ScenarioS4 ==
    S4 => <>(/\ Returned /\ success
             /\ DOMAIN results = {0, 1, 2}
             /\ \A i \in DOMAIN results : results[i] = 5)

S1 == num_nodes = 4 /\ num_malicious = 0 /\ leader_node = 0 /\ value = 7

\* C5 (scenario S1): with N=4, b=0, leader 0 and v=7 every fair run ends with
\* broadcast returning success and delivered_map[i] = 7 for every i in 0..3.
C5_ScenarioS1 ==
    S1 => <>(/\ Returned /\ success
             /\ DOMAIN results = {0, 1, 2, 3}
             /\ \A i \in DOMAIN results : results[i] = 7)

C5_Witness ==
    /\ S1 /\ Returned /\ success
    /\ \A i \in 0 .. 3 : i \in DOMAIN results /\ results[i] = 7

SpecTermination == good_nodes \subseteq DOMAIN results
SpecAgreement == \A p, q \in good_nodes \cap DOMAIN results : results[p] = results[q]
SpecValidity ==
    leader_node \in good_nodes =>
        \A p \in good_nodes \cap DOMAIN results : results[p] = value

\* C6 (result predicate): the boolean broadcast returns is true exactly when
\* every honest id has an entry, the honest entries are equal and, with an
\* honest leader, equal v; the map holds exactly the pairs (p, v') of the
\* participants that reported END(v') during the relay loop.
C6_ResultPredicate ==
    Returned =>
        /\ success <=> (SpecTermination /\ SpecAgreement /\ SpecValidity)
        /\ DOMAIN results = {p \in NodeIds : HasDelivered(p)}
        /\ \A p \in DOMAIN results : delivered[p] = {results[p]}

C6_Witness == Returned /\ success /\ num_malicious = 1 /\ DOMAIN results = good_nodes

\* C7 (configuration error): with 3*b >= N construction fails before any
\* participant exists: no thread, no participant channel content, no envelope;
\* and such a configuration never gets past construction.
C7_ConfigError ==
    /\ net_pc = "config_error" =>
          /\ nodes = {}
          /\ rx = <<>>
          /\ \A i \in NodeIds : node_pc[i] = "none" /\ chan[i] = <<>> /\ outbox[i] = <<>>
    /\ 3 * num_malicious >= num_nodes => net_pc \in {"start", "config_error"}

C7_Witness == net_pc = "config_error" /\ num_nodes = 3 /\ num_malicious = 1

ShutdownEnd(i) == NetworkMessage(NETWORK_ID, i, "END", 0)

\* C9 (relay rule): a protocol envelope the fabric pulls is appended unchanged
\* to the inbox of its destination when that is still in the live set and is
\* dropped otherwise; pulling a participant's END puts nothing into an inbox but
\* the shutdown END; and every envelope entering the aggregated inbox is sent by
\* the thread its from field names.
C9_Step ==
    /\ (net_pc = "relay" /\ Len(rx') < Len(rx)) =>
          LET m == Head(rx) IN
            IF m.kind # "END"
            THEN chan' = IF m.to \in nodes
                         THEN [chan EXCEPT ![m.to] = Append(@, m)]
                         ELSE chan
            ELSE \A i \in NodeIds :
                   \/ chan'[i] = chan[i]
                   \/ chan'[i] = Append(chan[i], ShutdownEnd(i))
    /\ Len(rx') > Len(rx) =>
          LET e == rx'[Len(rx')] IN
            /\ rx' = Append(rx, e)
            /\ e.from \in NodeIds
            /\ outbox[e.from] # <<>> /\ e = Head(outbox[e.from])
            /\ outbox' = [outbox EXCEPT ![e.from] = Tail(@)]

C9_Inboxes ==
    /\ \A i \in NodeIds : \A k \in 1 .. Len(outbox[i]) : outbox[i][k].from = i
    /\ \A i \in NodeIds : \A k \in 1 .. Len(chan[i]) :
         LET e == chan[i][k] IN
           /\ e.to = i
           /\ e.from = NETWORK_ID => e.kind \in {"BC_LEADER", "END"}
           /\ e.from # NETWORK_ID => e.from \in NodeIds \ {i} /\ e.kind # "END"

C9_RelayRule == []C9_Inboxes /\ [][C9_Step]_vars

C9_Witness ==
    /\ net_pc = "relay" /\ rx # <<>>
    /\ Head(rx).kind # "END" /\ Head(rx).to \notin nodes
    /\ \E i \in nodes : chan[i] # <<>> /\ Head(chan[i]).from \in NodeIds

\* C10 (shutdown): the relay loop is left exactly in the step that processes
\* the END of the last honest participant; that step appends exactly one END(0)
\* to the inbox of every participant still in the live set, all of them
\* malicious; no END is in a participant inbox before; nothing is relayed
\* after; and every participant then stops and the joins complete.
C10_Step ==
    /\ (net_pc = "relay" /\ net_pc' # "relay") =>
          /\ rx # <<>> /\ Head(rx).kind = "END" /\ Head(rx).from \in good_nodes
          /\ good_running_nodes = 1 /\ good_running_nodes' = 0
          /\ net_pc' = "joining"
          /\ nodes' \subseteq malicious_nodes
          /\ \A i \in NodeIds :
               chan'[i] = IF i \in nodes' THEN Append(chan[i], ShutdownEnd(i)) ELSE chan[i]
    /\ (/\ net_pc = "relay" /\ Len(rx') < Len(rx) /\ Head(rx).kind = "END"
        /\ Head(rx).from \in good_nodes /\ good_running_nodes = 1) => net_pc' = "joining"
    /\ net_pc \in {"joining", "returned"} =>
          /\ net_pc' \in {"joining", "returned"}
          /\ \A i \in NodeIds : Len(chan'[i]) <= Len(chan[i])

C10_NoEarlyEnd ==
    net_pc \in {"start", "created", "relay"} =>
        \A i \in NodeIds : \A k \in 1 .. Len(chan[i]) : chan[i][k].kind # "END"

C10_Shutdown ==
    /\ []C10_NoEarlyEnd
    /\ [][C10_Step]_vars
    /\ (net_pc = "joining") ~> (Returned /\ \A i \in malicious_nodes : node_pc[i] = "done")

C10_Witness ==
    /\ Returned /\ num_malicious = 1
    /\ \A i \in malicious_nodes : node_pc[i] = "done" /\ chan[i] = <<>>

\* C11 (stop on fabric END): a participant that takes END from its inbox leaves
\* its loop without sending: while it is leaving it has nothing to send, and
\* the aggregated inbox never holds an END from a participant that has not
\* delivered.
C11_StopOnFabricEnd ==
    /\ \A i \in NodeIds :
         (node_pc[i] \in {"exiting", "done"} /\ ~HasDelivered(i)) => outbox[i] = <<>>
    /\ \A k \in 1 .. Len(rx) : rx[k].kind = "END" => HasDelivered(rx[k].from)

\* The protocol envelopes from s to r that s has still to send, that wait in the
\* aggregated inbox, and that wait in the inbox of r, oldest first
FromTo(q, s, r) == SelectSeq(q, LAMBDA e : e.from = s /\ e.to = r)
InFlight(s, r) == FromTo(chan[r], s, r) \o FromTo(rx, s, r) \o FromTo(outbox[s], s, r)
InFlightNext(s, r) == FromTo(chan'[r], s, r) \o FromTo(rx', s, r) \o FromTo(outbox'[s], s, r)

IsPrefix(p, q) == Len(p) <= Len(q) /\ SubSeq(q, 1, Len(p)) = p

\* C12 (per-sender FIFO): for a sender s and a live recipient r, the envelopes
\* from s on their way to r leave only at the front, when r receives the
\* oldest of them, and enter only at the back, when s is about to send newer
\* ones: r receives the envelopes of s in the order s sent them.  A recipient
\* takes the envelopes of distinct senders in the order of its inbox, whatever
\* the order in which they were sent.
C12_Step ==
    \A s \in NodeIds : \A r \in nodes' \ {s} :
        \/ InFlightNext(s, r) = InFlight(s, r)
        \/ /\ InFlight(s, r) # <<>>
           /\ InFlightNext(s, r) = Tail(InFlight(s, r))
           /\ chan[r] # <<>> /\ Head(chan[r]) = Head(InFlight(s, r))
           /\ chan'[r] = Tail(chan[r])
        \/ /\ IsPrefix(InFlight(s, r), InFlightNext(s, r))
           /\ outbox[s] = <<>>

C12_PerSenderFifo == [][C12_Step]_vars

\* r holds an ECHO and a later READY of one sender, and a READY of a second
\* sender ahead of that sender's ECHO to r, which is still on its way
C12_Witness ==
    \E r \in nodes : \E s, t \in NodeIds \ {r} :
        /\ s # t
        /\ Len(FromTo(chan[r], s, r)) >= 2
        /\ FromTo(chan[r], s, r)[1].kind = "BC_ECHO"
        /\ FromTo(chan[r], s, r)[2].kind = "BC_READY"
        /\ \E k \in 1 .. Len(chan[r]) : chan[r][k].from = t /\ chan[r][k].kind = "BC_READY"
        /\ \E k \in 1 .. Len(rx) : rx[k].from = t /\ rx[k].to = r /\ rx[k].kind = "BC_ECHO"

\* Envelopes of one kind a participant's handler has just queued for sending
Queued(i, kind) == SelectSeq(outbox'[i], LAMBDA e : e.kind = kind)

\* C13 (once-only latches): the latches of an honest participant go from not
\* sent to sent and never back; ECHO (READY) envelopes are queued only in the
\* step that sets the echo (ready) latch, one per peer and for one value; a
\* participant that has delivered takes nothing more from its inbox, changes no
\* protocol state and sends nothing but its END(v) to the fabric.
C13_Step ==
    \A i \in good_nodes :
        /\ echo'[i] => echo[i]
        /\ ready'[i] => ready[i]
        /\ outbox'[i] # outbox[i] /\ Queued(i, "BC_ECHO") # <<>> /\ outbox[i] = <<>> =>
              /\ echo[i] /\ ~echo'[i]
              /\ \E v \in AllValues : Queued(i, "BC_ECHO") = send_to_all(i, "BC_ECHO", v)
        /\ outbox'[i] # outbox[i] /\ Queued(i, "BC_READY") # <<>> /\ outbox[i] = <<>> =>
              /\ ready[i] /\ ~ready'[i]
              /\ \E v \in AllValues : Queued(i, "BC_READY") = send_to_all(i, "BC_READY", v)
        /\ outbox[i] # <<>> => outbox'[i] \in {outbox[i], Tail(outbox[i])}
        /\ HasDelivered(i) =>
              /\ delivered'[i] = delivered[i]
              /\ IsPrefix(chan[i], chan'[i])
              /\ echo'[i] = echo[i] /\ ready'[i] = ready[i]
              /\ echo_received'[i] = echo_received[i]
              /\ ready_received'[i] = ready_received[i]
              /\ Len(outbox[i]) <= 1
              /\ \A k \in 1 .. Len(outbox[i]) : \A v \in delivered[i] :
                   outbox[i][k] = NetworkMessage(i, NETWORK_ID, "END", v)
              /\ outbox'[i] \in {outbox[i], <<>>}

C13_Latches == [][C13_Step]_vars

\* A participant that sent ECHO and READY and delivered, with envelopes it
\* will never take still arriving in its inbox
C13_Witness ==
    \E i \in good_nodes :
        /\ HasDelivered(i) /\ ~echo[i] /\ ~ready[i]
        /\ node_pc[i] = "done" /\ chan[i] # <<>>

\* C14 (set semantics of the tallies): no step of an honest participant removes
\* a sender from echo_received[v] or ready_received[v]; a step that takes
\* ECHO(v) (READY(v)) from s adds exactly s to the tally of v, and no other
\* step changes a tally.
C14_Step ==
    \A i \in good_nodes : \A v \in AllValues :
        /\ echo_received[i][v] \subseteq echo_received'[i][v]
        /\ ready_received[i][v] \subseteq ready_received'[i][v]
        /\ echo_received'[i][v] # echo_received[i][v] =>
              /\ CanRecv(i) /\ Head(chan[i]).kind = "BC_ECHO" /\ Head(chan[i]).val = v
              /\ echo_received'[i][v] = echo_received[i][v] \cup {Head(chan[i]).from}
        /\ ready_received'[i][v] # ready_received[i][v] =>
              /\ CanRecv(i) /\ Head(chan[i]).kind = "BC_READY" /\ Head(chan[i]).val = v
              /\ ready_received'[i][v] = ready_received[i][v] \cup {Head(chan[i]).from}

C14_SetSemantics == [][C14_Step]_vars

\* The step in which honest participant i takes READY(v) from its inbox
TakesReady(i, v) ==
    /\ CanRecv(i) /\ Head(chan[i]).kind = "BC_READY" /\ Head(chan[i]).val = v
    /\ chan'[i] = Tail(chan[i])

Delivers(i, v) ==
    /\ delivered[i] = {} /\ delivered'[i] = {v}
    /\ outbox'[i] # <<>>
    /\ outbox'[i][Len(outbox'[i])] = NetworkMessage(i, NETWORK_ID, "END", v)
    /\ node_pc'[i] = "exiting"

\* C15 (delivery rule): an honest participant that takes READY(v) and then has
\* READY(v) from at least honest_min - 1 senders delivers v in that step,
\* whatever its ready latch was and whether or not the step also amplifies;
\* and it delivers v only in such a step.
C15_Step ==
    \A i \in good_nodes : \A v \in AllValues :
        /\ (TakesReady(i, v) /\ Cardinality(ready_received'[i][v]) >= min_honnest_nodes - 1)
              => Delivers(i, v)
        /\ delivered'[i] # delivered[i] /\ delivered'[i] = {v} =>
              /\ TakesReady(i, v)
              /\ Cardinality(ready_received'[i][v]) >= min_honnest_nodes - 1

C15_DeliveryRule == [][C15_Step]_vars

\* C16 (amplification rule): an honest participant that takes READY(v) from s
\* with its ready latch not set, and then has READY(v) from more than
\* floor(N/3) senders, queues READY(v) for every peer and sets the latch; with
\* at most floor(N/3) senders, or with the latch already set, the step queues
\* no READY and leaves the latch as it was.
C16_Step ==
    \A i \in good_nodes : \A v \in AllValues :
        TakesReady(i, v) =>
            LET senders == ready_received[i][v] \cup {Head(chan[i]).from} IN
              IF ready[i] /\ Cardinality(senders) > num_nodes \div 3
              THEN /\ outbox'[i] = send_to_all(i, "BC_READY", v)
                   /\ Len(outbox'[i]) = num_nodes - 1
                   /\ ~ready'[i]
              ELSE /\ Queued(i, "BC_READY") = <<>>
                   /\ ready'[i] = ready[i]

C16_Amplification == [][C16_Step]_vars

\* A participant that has sent READY(v) on READY(v) from more than floor(N/3)
\* senders without an echo quorum for v
C16_Witness ==
    \E i \in good_nodes : \E v \in Values :
        /\ ~ready[i]
        /\ outbox[i] = send_to_all(i, "BC_READY", v)
        /\ Cardinality(ready_received[i][v]) > num_nodes \div 3
        /\ ~EchoQuorum(Cardinality(echo_received[i][v]))

\* The step in which honest participant i takes ECHO(v) from its inbox
TakesEcho(i, v) ==
    /\ CanRecv(i) /\ Head(chan[i]).kind = "BC_ECHO" /\ Head(chan[i]).val = v
    /\ chan'[i] = Tail(chan[i])

\* C17 (echo quorum): an honest participant that takes ECHO(v) from s with its
\* ready latch not set, and then has ECHO(v) from at least honest_min - 1
\* senders (honest_min = N - floor(N/3)), queues READY(v) for every peer and
\* sets the latch; below that bound, or with the latch set, the step records s
\* and does nothing else.
C17_Step ==
    \A i \in good_nodes : \A v \in AllValues :
        TakesEcho(i, v) =>
            LET senders == echo_received[i][v] \cup {Head(chan[i]).from} IN
              /\ echo_received'[i] = [echo_received[i] EXCEPT ![v] = senders]
              /\ IF ready[i] /\ Cardinality(senders) >= (num_nodes - num_nodes \div 3) - 1
                 THEN /\ outbox'[i] = send_to_all(i, "BC_READY", v)
                      /\ ~ready'[i]
                 ELSE /\ outbox'[i] = <<>>
                      /\ ready'[i] = ready[i]
                      /\ ready_received'[i] = ready_received[i]
              /\ echo'[i] = echo[i] /\ delivered'[i] = delivered[i]
              /\ node_pc'[i] = node_pc[i]

Takes(i, kind, v) ==
    /\ CanRecv(i) /\ Head(chan[i]).kind = kind /\ Head(chan[i]).val = v
    /\ chan'[i] = Tail(chan[i])

Peers(i) == (0 .. (num_nodes - 1)) \ {i}

\* q is one envelope of the given kind and value from i to each of its peers
OneToEachPeer(q, i, kind, v) ==
    /\ Len(q) = num_nodes - 1
    /\ {q[k].to : k \in 1 .. Len(q)} = Peers(i)
    /\ \A k \in 1 .. Len(q) : q[k].from = i /\ q[k].kind = kind /\ q[k].val = v

\* C18 (leader and INIT rules): on LEADER(v) an honest participant queues
\* INIT(v) for each of its N-1 peers, then ECHO(v) for each peer, and sets the
\* echo latch; on INIT(v) it queues ECHO(v) for each peer and sets the latch if
\* the latch was not set, and does nothing otherwise; neither step changes the
\* ready latch or a tally, and no envelope is addressed to the participant
\* itself.
C18_Step ==
    \A i \in good_nodes : \A v \in AllValues :
        /\ Takes(i, "BC_LEADER", v) =>
              /\ Len(outbox'[i]) = 2 * (num_nodes - 1)
              /\ OneToEachPeer(SubSeq(outbox'[i], 1, num_nodes - 1), i, "BC_INIT", v)
              /\ OneToEachPeer(SubSeq(outbox'[i], num_nodes, 2 * (num_nodes - 1)), i, "BC_ECHO", v)
              /\ ~echo'[i]
        /\ Takes(i, "BC_INIT", v) =>
              IF echo[i]
              THEN OneToEachPeer(outbox'[i], i, "BC_ECHO", v) /\ ~echo'[i]
              ELSE outbox'[i] = <<>> /\ ~echo'[i]
        /\ (Takes(i, "BC_LEADER", v) \/ Takes(i, "BC_INIT", v)) =>
              /\ ready'[i] = ready[i]
              /\ echo_received'[i] = echo_received[i]
              /\ ready_received'[i] = ready_received[i]
              /\ delivered'[i] = delivered[i] /\ node_pc'[i] = node_pc[i]

C18_NoSelf ==
    \A i \in NodeIds : \A k \in 1 .. Len(outbox[i]) : outbox[i][k].to # i

C18_LeaderInit == []C18_NoSelf /\ [][C18_Step]_vars

\* The leader is still sending the ECHO of its LEADER step while a peer that
\* took its INIT has queued its own ECHO
C18_Witness ==
    /\ leader_node \in good_nodes /\ num_nodes = 4
    /\ ~echo[leader_node] /\ outbox[leader_node] # <<>>
    /\ \A k \in 1 .. Len(outbox[leader_node]) : outbox[leader_node][k].kind = "BC_ECHO"
    /\ \E j \in good_nodes \ {leader_node} :
         /\ ~echo[j] /\ OneToEachPeer(outbox[j], j, "BC_ECHO", value)

\* What a Byzantine participant may send: ECHO(M) or READY(M) to a peer under
\* its own id, and END to the fabric only once the fabric's END has stopped it
ByzantineEnvelope(i, e) ==
    /\ e.from = i
    /\ \/ /\ e.kind \in {"BC_ECHO", "BC_READY"}
          /\ e.val = MALICIOUS_VALUE
          /\ e.to \in Peers(i)
       \/ /\ e.kind = "END" /\ e.to = NETWORK_ID
          /\ node_pc[i] \in {"exiting", "done"}

C19_Envelopes ==
    \A i \in malicious_nodes :
        /\ \A k \in 1 .. Len(outbox[i]) : ByzantineEnvelope(i, outbox[i][k])
        /\ \A k \in 1 .. Len(rx) : rx[k].from = i => ByzantineEnvelope(i, rx[k])
        /\ \A r \in NodeIds : \A k \in 1 .. Len(chan[r]) :
             chan[r][k].from = i => ByzantineEnvelope(i, chan[r][k])
        /\ echo[i] /\ ready[i] /\ delivered[i] = {}
        /\ echo_received[i] = EmptyTally /\ ready_received[i] = EmptyTally

C19_Step ==
    \A i \in malicious_nodes :
        (CanRecv(i) /\ chan'[i] = Tail(chan[i]) /\ Head(chan[i]).kind # "END") =>
            /\ \E kind \in {"BC_ECHO", "BC_READY"} :
                 OneToEachPeer(outbox'[i], i, kind, MALICIOUS_VALUE)
            /\ node_pc'[i] = node_pc[i]

\* C19 (RandomCorrupt): for every protocol envelope a Byzantine participant
\* takes it queues exactly one message, ECHO(M) or READY(M), for each of its
\* peers under its own id; it never sends INIT or LEADER or another value,
\* sends END to the fabric only after the fabric's END, and keeps no echo or
\* ready state.
C19_RandomCorrupt == []C19_Envelopes /\ [][C19_Step]_vars

\* The Byzantine participant has drawn both messages in one run
C19_Witness ==
    \E i \in malicious_nodes :
        /\ OneToEachPeer(outbox[i], i, "BC_READY", MALICIOUS_VALUE)
        /\ \E r \in good_nodes : \E k \in 1 .. Len(chan[r]) :
             chan[r][k] = NetworkMessage(i, r, "BC_ECHO", MALICIOUS_VALUE)

\* C20 (keys of the delivered map): the map of the relay loop never has a
\* Byzantine identifier as a key, so its size equals the number of honest
\* identifiers exactly when every honest identifier has an entry, and the
\* agreement test over all recorded values is the one over honest entries;
\* once the loop is left the map has exactly one entry per honest identifier.
C20_HonestKeys ==
    /\ DOMAIN results \subseteq good_nodes
    /\ (Cardinality(DOMAIN results) = Cardinality(good_nodes)) <=> SpecTermination
    /\ (\A x, y \in Range(results) : x = y) <=> SpecAgreement
    /\ net_pc \in {"joining", "returned"} => DOMAIN results = good_nodes

\* broadcast has returned and the END of a Byzantine participant lies in the
\* aggregated inbox, never recorded
C20_Witness ==
    /\ Returned /\ DOMAIN results = good_nodes
    /\ \E k \in 1 .. Len(rx) : rx[k].kind = "END" /\ rx[k].from \in malicious_nodes

\* END envelopes of participant i that the fabric has recorded, has still to
\* pull, or that i has still to send
EndsOf(i) ==
    (IF i \in DOMAIN results THEN 1 ELSE 0)
      + Len(SelectSeq(rx, LAMBDA e : e.kind = "END" /\ e.from = i))
      + Len(SelectSeq(outbox[i], LAMBDA e : e.kind = "END"))

\* C21 (counter of running honest participants): while the relay loop runs the
\* counter equals the number of honest identifiers in the live map and is at
\* least one; it never goes below zero; the fabric never pulls an END of a
\* participant it has already removed, because until the loop is left every
\* participant has sent at most one END and the recorded ones are those of the
\* removed participants.
C21_Counter ==
    /\ net_pc # "panicked"
    /\ good_running_nodes >= 0
    /\ net_pc = "relay" =>
          /\ good_running_nodes = Cardinality(nodes \cap good_nodes)
          /\ good_running_nodes >= 1
          /\ DOMAIN results = (0 .. (num_nodes - 1)) \ nodes
          /\ \A i \in NodeIds : EndsOf(i) <= 1
          /\ \A k \in 1 .. Len(rx) : rx[k].kind = "END" => rx[k].from \in nodes
    /\ net_pc \in {"joining", "returned"} => good_running_nodes = 0

\* Two of three honest participants have been removed and the END of the last
\* waits in the aggregated inbox
C21_Witness ==
    /\ net_pc = "relay" /\ num_malicious = 1
    /\ good_running_nodes = 1 /\ Cardinality(nodes \cap good_nodes) = 1
    /\ rx # <<>> /\ Head(rx).kind = "END" /\ Head(rx).from \in nodes

\* ECHO(M) or READY(M) sent, or about to be sent, by an honest participant
HonestSendsM ==
    \E i \in good_nodes :
        \/ \E k \in 1 .. Len(outbox[i]) : outbox[i][k].val = MALICIOUS_VALUE
        \/ \E k \in 1 .. Len(rx) : rx[k].from = i /\ rx[k].val = MALICIOUS_VALUE
        \/ \E r \in NodeIds : \E k \in 1 .. Len(chan[r]) :
             chan[r][k].from = i /\ chan[r][k].val = MALICIOUS_VALUE

HonestLeaderRun ==
    /\ ConfigOk(num_nodes, num_malicious)
    /\ leader_node \in good_nodes
    /\ value # MALICIOUS_VALUE

TalliesOfM ==
    \A i \in good_nodes :
        /\ echo_received[i][MALICIOUS_VALUE] \subseteq malicious_nodes
        /\ ready_received[i][MALICIOUS_VALUE] \subseteq malicious_nodes
        /\ Cardinality(echo_received[i][MALICIOUS_VALUE]) <= num_malicious
        /\ Cardinality(ready_received[i][MALICIOUS_VALUE]) <= num_malicious

\* C22 as stated: with b < N/3 and an honest leader broadcasting v # M, no
\* honest participant sends ECHO(M) or READY(M), the tallies of M have at most
\* b senders, and b < honest_min - 1 and b <= f_max.
C22_AsStated ==
    HonestLeaderRun =>
        /\ ~HonestSendsM
        /\ TalliesOfM
        /\ num_malicious < min_honnest_nodes - 1
        /\ num_malicious <= max_malicious_nodes

\* C22 (no honest participant sends M): with b < N/3 and an honest leader
\* broadcasting v # M, no honest participant sends ECHO(M) or READY(M); the
\* tallies of M hold Byzantine senders only, at most b, with b <= f_max, and
\* b < honest_min - 1 in every network of at least two participants, so that
\* neither the echo quorum nor the amplification is met for M.
C22_NoHonestM ==
    HonestLeaderRun =>
        /\ ~HonestSendsM
        /\ TalliesOfM
        /\ num_nodes >= 2 => num_malicious < min_honnest_nodes - 1
        /\ num_malicious <= max_malicious_nodes
        /\ \A i \in good_nodes :
             /\ num_nodes >= 2 => ~EchoQuorum(Cardinality(echo_received[i][MALICIOUS_VALUE]))
             /\ ~ReadyAmplify(Cardinality(ready_received[i][MALICIOUS_VALUE]))

\* An honest participant has delivered v with ECHO(M) and READY(M) of the
\* Byzantine participant in its tallies
C22_Witness ==
    /\ HonestLeaderRun /\ num_malicious = 1
    /\ \E i \in good_nodes :
         /\ echo_received[i][MALICIOUS_VALUE] = malicious_nodes
         /\ ready_received[i][MALICIOUS_VALUE] = malicious_nodes
         /\ ~ready[i] /\ delivered[i] = {value}

====
